---- MODULE Spec2Model ----
(***************************************************************************)
(* Model of the introspect-backend request handlers                        *)
(* (src/src/endpoints/analysis.ts, routed by src/src/index.ts):            *)
(*   POST /analyze  -> handleAnalyze  -> analyzeWithGemini per sample      *)
(*   POST /tts      -> handleTTS      -> handleSingleTTS | handleBatchTTS  *)
(*   POST /summary  -> handleSummary                                       *)
(* One request is followed from its arrival to its HTTP response; every    *)
(* await of an upstream fetch is a step boundary.  Texts are sequences of  *)
(* one-character strings so that trimming, lower-casing, splitting and     *)
(* substring search are computed, not assumed.                             *)
(***************************************************************************)
EXTENDS Integers, Sequences, FiniteSets, TLC

VARIABLES
    route,      \* "analyze" | "tts" | "summary" | "none": the route of index.ts that was hit
    contentMode,\* the contentMode query parameter, <<>> when absent
    body,       \* the request body as JSON
    pc,         \* the handler's position
    i,          \* the loop index of handleAnalyze / handleBatchTTS (1-based here)
    results,    \* analyses (handleAnalyze) / audioResults (handleBatchTTS)
    calls,      \* every upstream fetch issued so far, in issue order
    pending,    \* the item indices whose fetch has been issued and not yet settled
    served,     \* what the upstream answered to each settled fetch, in order
    response,   \* the HTTP response, NoResponse until the route returns
    modelText,  \* a model output text handed to the success path of analyzeWithGemini
    parsed      \* what that success path returned, NoParse before it ran

vars == << route, contentMode, body, pc, i, results, calls, pending, served,
           response, modelText, parsed >>

(***************************************************************************)
(* Bounds of the model.                                                    *)
(***************************************************************************)
MaxItems == 2

MaxTokens == 4

(***************************************************************************)
(* Text primitives (JavaScript String methods used by the handlers).       *)
(***************************************************************************)
UpperCase == << "A", "B", "C", "D", "E", "F", "G", "H", "I", "J", "K", "L", "M",
                "N", "O", "P", "Q", "R", "S", "T", "U", "V", "W", "X", "Y", "Z" >>

LowerCase == << "a", "b", "c", "d", "e", "f", "g", "h", "i", "j", "k", "l", "m",
                "n", "o", "p", "q", "r", "s", "t", "u", "v", "w", "x", "y", "z" >>

Whitespace == { " ", "\n", "\t" }

LowerChar(c) ==
    IF \E k \in 1..Len(UpperCase) : UpperCase[k] = c
    THEN LowerCase[CHOOSE k \in 1..Len(UpperCase) : UpperCase[k] = c]
    ELSE c

toLowerCase(s) == [k \in 1..Len(s) |-> LowerChar(s[k])]

RECURSIVE TrimStart(_)
TrimStart(s) ==
    IF s # <<>> /\ Head(s) \in Whitespace THEN TrimStart(Tail(s)) ELSE s

RECURSIVE TrimEnd(_)
TrimEnd(s) ==
    IF s # <<>> /\ s[Len(s)] \in Whitespace
    THEN TrimEnd(SubSeq(s, 1, Len(s) - 1))
    ELSE s

trim(s) == TrimEnd(TrimStart(s))

\* s.split(<one of delims>)[0]: the text before the first delimiter.
RECURSIVE SplitFirst(_, _)
SplitFirst(s, delims) ==
    IF s = <<>> \/ Head(s) \in delims
    THEN <<>>
    ELSE <<Head(s)>> \o SplitFirst(Tail(s), delims)

\* s.split('.').slice(1).join('.'): the text after the first period.
AfterFirstPeriod(s) ==
    SubSeq(s, Len(SplitFirst(s, {"."})) + 2, Len(s))

includes(hay, needle) ==
    \E k \in 1..(Len(hay) - Len(needle) + 1) :
        SubSeq(hay, k, k + Len(needle) - 1) = needle

(***************************************************************************)
(* The emotion words.                                                      *)
(***************************************************************************)
emotionKeywords ==
    << <<"h", "a", "p", "p", "y">>,
       <<"s", "a", "d">>,
       <<"a", "n", "g", "r", "y">>,
       <<"a", "n", "x", "i", "o", "u", "s">>,
       <<"w", "o", "r", "r", "i", "e", "d">>,
       <<"c", "o", "n", "f", "u", "s", "e", "d">>,
       <<"n", "e", "u", "t", "r", "a", "l">>,
       <<"c", "a", "l", "m">>,
       <<"s", "t", "r", "e", "s", "s", "e", "d">>,
       <<"s", "u", "r", "p", "r", "i", "s", "e", "d">>,
       <<"s", "u", "r", "p", "r", "i", "s", "e">>,
       <<"f", "e", "a", "r", "f", "u", "l">>,
       <<"d", "i", "s", "g", "u", "s", "t", "e", "d">>,
       <<"c", "o", "n", "t", "e", "n", "t">>,
       <<"f", "r", "u", "s", "t", "r", "a", "t", "e", "d">>,
       <<"c", "o", "n", "c", "e", "r", "n", "e", "d">>,
       <<"e", "x", "c", "i", "t", "e", "d">>,
       <<"d", "i", "s", "a", "p", "p", "o", "i", "n", "t", "e", "d">>,
       <<"s", "c", "a", "r", "e", "d">>,
       <<"a", "f", "r", "a", "i", "d">>,
       <<"c", "h", "e", "e", "r", "f", "u", "l">>,
       <<"j", "o", "y", "f", "u", "l">> >>

\* The list both prompt templates of buildVisionPrompt give to the model.
PromptVocabulary ==
    << <<"h", "a", "p", "p", "y">>,
       <<"s", "a", "d">>,
       <<"a", "n", "g", "r", "y">>,
       <<"a", "n", "x", "i", "o", "u", "s">>,
       <<"w", "o", "r", "r", "i", "e", "d">>,
       <<"c", "o", "n", "f", "u", "s", "e", "d">>,
       <<"n", "e", "u", "t", "r", "a", "l">>,
       <<"c", "a", "l", "m">>,
       <<"s", "t", "r", "e", "s", "s", "e", "d">>,
       <<"s", "u", "r", "p", "r", "i", "s", "e", "d">>,
       <<"f", "e", "a", "r", "f", "u", "l">>,
       <<"d", "i", "s", "g", "u", "s", "t", "e", "d">>,
       <<"c", "o", "n", "t", "e", "n", "t">>,
       <<"f", "r", "u", "s", "t", "r", "a", "t", "e", "d">>,
       <<"c", "o", "n", "c", "e", "r", "n", "e", "d">>,
       <<"e", "x", "c", "i", "t", "e", "d">> >>

Range(seq) == { seq[k] : k \in 1..Len(seq) }

Neutral == <<"n", "e", "u", "t", "r", "a", "l">>

\* for (const emotion of emotionKeywords) if (text.includes(emotion)) return emotion
RECURSIVE FirstIncluded(_, _)
FirstIncluded(text, k) ==
    IF k > Len(emotionKeywords) THEN <<>>
    ELSE IF includes(text, emotionKeywords[k]) THEN << emotionKeywords[k] >>
    ELSE FirstIncluded(text, k + 1)

\* A plausible slip: with no emotion found, the first word is returned as it stands.
extractExpression_FirstWordFallback(analysisText) ==
    LET lowerText     == trim(toLowerCase(analysisText))
        firstWord     == SplitFirst(lowerText, {".", ","} \cup Whitespace)
        firstSentence == SplitFirst(lowerText, {"."})
        inSentence    == FirstIncluded(firstSentence, 1)
        inText        == FirstIncluded(lowerText, 1)
    IN  IF firstWord \in Range(emotionKeywords) THEN firstWord
        ELSE IF inSentence # <<>> THEN inSentence[1]
        ELSE IF inText # <<>> THEN inText[1]
        ELSE firstWord

\* A plausible slip: the first-word strategy is left out.
extractExpression_NoFirstWord(analysisText) ==
    LET lowerText     == trim(toLowerCase(analysisText))
        firstSentence == SplitFirst(lowerText, {"."})
        inSentence    == FirstIncluded(firstSentence, 1)
        inText        == FirstIncluded(lowerText, 1)
    IN  IF inSentence # <<>> THEN inSentence[1]
        ELSE IF inText # <<>> THEN inText[1]
        ELSE Neutral

extractExpression(analysisText) ==
    LET lowerText     == trim(toLowerCase(analysisText))
        firstWord     == SplitFirst(lowerText, {".", ","} \cup Whitespace)
        firstSentence == SplitFirst(lowerText, {"."})
        inSentence    == FirstIncluded(firstSentence, 1)
        inText        == FirstIncluded(lowerText, 1)
    IN  IF firstWord \in Range(emotionKeywords) THEN firstWord
        ELSE IF inSentence # <<>> THEN inSentence[1]
        ELSE IF inText # <<>> THEN inText[1]
        ELSE Neutral

\* The success path of analyzeWithGemini on the text of the first candidate.
GeminiSuccess(text) ==
    LET fullText   == trim(text)
        expression == extractExpression(fullText)
        analysis   == IF includes(fullText, <<".">>)
                      THEN trim(AfterFirstPeriod(fullText))
                      ELSE fullText
    IN  [ success |-> TRUE, analysis |-> analysis, expression |-> expression,
          error |-> <<>> ]

(***************************************************************************)
(* Model output texts: every concatenation of at most MaxTokens tokens.    *)
(***************************************************************************)
Tokens ==
    { <<"H", "a", "p", "p", "y">>, <<"s", "a", "d">>,
      <<"S", "c", "a", "r", "e", "d">>, <<"s", "o", " ">>,
      <<".">>, <<",">>, <<" ">> }

RECURSIVE Flatten(_)
Flatten(ts) == IF ts = <<>> THEN <<>> ELSE Head(ts) \o Flatten(Tail(ts))

Texts == { Flatten(ts) : ts \in UNION { [1..n -> Tokens] : n \in 0..MaxTokens } }

NoParse == [ success |-> FALSE, analysis |-> <<>>, expression |-> <<>>,
             error |-> <<"not run">> ]

(***************************************************************************)
(* JSON request bodies.  An optional property is <<>> when absent and      *)
(* <<v>> when present.  Times are in hundredths of a second, so that       *)
(* toFixed has something to round.                                         *)
(***************************************************************************)
Item(json, pulse, breath, time, image, text, voice, timestamp) ==
    [ json |-> json, Pulse |-> pulse, Breath |-> breath, Time |-> time,
      Image |-> image, text |-> text, voice |-> voice, timestamp |-> timestamp ]

NullItem == Item("null", <<>>, <<>>, <<>>, <<>>, <<>>, <<>>, <<>>)

\* A JSON number or string in the place of an object: every property read is undefined.
PrimItem == Item("primitive", <<>>, <<>>, <<>>, <<>>, <<>>, <<>>, <<>>)

Sample(pulse, breath, time, image) ==
    Item("object", pulse, breath, time, image, <<>>, <<>>, <<>>)

\* A data URL in its parts: scheme, image subtype, encoding marker, payload.
DataUrlImage == << "data:image/", <<"j", "p", "e", "g">>, ";base64,", "QUJD" >>

PlainImage == << "QUJD" >>

SampleObjects ==
    { Sample(<<72>>, <<16>>, <<150>>, <<DataUrlImage>>),
      Sample(<<95>>, <<>>, <<0>>, <<>>),
      Sample(<<>>, <<12>>, <<>>, <<PlainImage>>) }

SpeechRequest(text, voice, timestamp) ==
    Item("object", <<>>, <<>>, <<>>, <<>>, text, voice, timestamp)

SpeechObjects ==
    { SpeechRequest(<<"Hello">>, <<>>, <<5>>),
      SpeechRequest(<<>>, <<"v2">>, <<7>>),
      SpeechRequest(<<"">>, <<>>, <<>>),
      SpeechRequest(<<"Bye">>, <<"v2">>, <<9>>) }

SeqsUpTo(S, n) == UNION { [1..k -> S] : k \in 0..n }

Body(json, value) == [ json |-> json, value |-> value ]

InvalidJson == Body("invalid", <<>>)

NullBody == Body("null", <<>>)

NumberBody == Body("primitive", <<>>)

AnalyzeBodies ==
    { InvalidJson, NullBody }
      \cup { Body("object", o) : o \in SampleObjects }
      \cup { Body("array", a) :
               a \in SeqsUpTo(SampleObjects \cup {NullItem, PrimItem}, MaxItems) }

SpeechBodies ==
    { InvalidJson, NullBody, NumberBody }
      \cup { Body("object", o) : o \in SpeechObjects }
      \cup { Body("array", a) : a \in SeqsUpTo(SpeechObjects \cup {NullItem}, MaxItems) }

SummaryBodies == AnalyzeBodies

IsArray(b) == b.json = "array"

\* x || d for a number property
NumOr(prop, d) == IF prop = <<>> \/ prop[1] = 0 THEN d ELSE prop[1]

\* !x for a string property
Falsy(prop) == prop = <<>> \/ prop[1] = ""

\* x || d for a string property
StrOr(prop, d) == IF Falsy(prop) THEN d ELSE prop[1]

(***************************************************************************)
(* What an upstream service can answer to one fetch.                       *)
(***************************************************************************)
Outcome(fetch, ok, status, statusText, readable, shape, text) ==
    [ fetch |-> fetch, ok |-> ok, status |-> status, statusText |-> statusText,
      readable |-> readable, shape |-> shape, text |-> text ]

ReplyTexts ==
    { Flatten(<< <<"H", "a", "p", "p", "y">>, <<".">>, <<" ">>, <<"t", "h", "e">> >>),
      Flatten(<< <<" ">>, <<"s", "o", " ">>, <<"S", "c", "a", "r", "e", "d">> >>) }

GeminiOutcomes ==
    { Outcome("rejected", FALSE, 0, "", FALSE, "none", <<>>),
      Outcome("resolved", FALSE, 429, "Too Many Requests", TRUE, "error-body", <<>>),
      Outcome("resolved", FALSE, 429, "Too Many Requests", FALSE, "error-body", <<>>),
      Outcome("resolved", TRUE, 200, "OK", FALSE, "json-text", <<>>),
      Outcome("resolved", TRUE, 200, "OK", TRUE, "not-json", <<>>),
      Outcome("resolved", TRUE, 200, "OK", TRUE, "json-notext", <<>>) }
      \cup { Outcome("resolved", TRUE, 200, "OK", TRUE, "json-text", t) : t \in ReplyTexts }

AudioBytes == << 73, 68, 51, 4 >>

SpeechOutcomes ==
    { Outcome("rejected", FALSE, 0, "", FALSE, "none", <<>>),
      Outcome("resolved", FALSE, 401, "Unauthorized", TRUE, "error-body", <<>>),
      Outcome("resolved", FALSE, 401, "Unauthorized", FALSE, "error-body", <<>>),
      Outcome("resolved", TRUE, 200, "OK", FALSE, "audio", <<>>),
      Outcome("resolved", TRUE, 200, "OK", TRUE, "audio", AudioBytes) }

\* Messages of the exceptions the runtime raises (their wording is the runtime's).
FetchFailed == << "fetch failed" >>

BodyUnreadable == << "body stream error" >>

JsonSyntaxError == << "Unexpected token in JSON" >>

NullPropertyError == << "Cannot read properties of null" >>

UndefinedPropertyError == << "Cannot read properties of undefined (reading 'toFixed')" >>

ErrorBodyText == "upstream error body"

(***************************************************************************)
(* HTTP responses.                                                         *)
(***************************************************************************)
Response(status, kind, error, payload) ==
    [ status |-> status, kind |-> kind, error |-> error, payload |-> payload ]

NoResponse == Response(0, "none", <<>>, <<>>)

\* new Response(JSON.stringify({error}), {status}) and c.json({error}, 500)
ErrorResponse(status, message) == Response(status, "error", message, <<>>)

\* A plausible slip: a batch with a failed item is answered as a failed request.
ResultsResponse_FailOnError(entries, total) ==
    Response(IF \E k \in 1..Len(entries) : entries[k].kind = "error" THEN 500 ELSE 200,
             "results", <<>>, [ results |-> entries, totalProcessed |-> total ])

\* new Response(JSON.stringify({results, totalProcessed})): no status given, so 200
ResultsResponse(entries, total) ==
    Response(200, "results", <<>>, [ results |-> entries, totalProcessed |-> total ])

(***************************************************************************)
(* handleAnalyze and analyzeWithGemini.                                    *)
(***************************************************************************)
\* url.searchParams.get('contentMode') || 'suggestions'
ContentModeOf(param) == StrOr(param, "suggestions")

buildVisionPrompt(heartRate, breathRate, mode) ==
    [ role     |-> IF mode = "facts" THEN "emotion analysis assistant" ELSE "empathy coach",
      metrics  |-> "Heart rate: " \o ToString(heartRate) \o " bpm, Breathing rate: "
                     \o ToString(breathRate) \o " breaths/min",
      emotions |-> PromptVocabulary ]

\* imageBase64.replace(/^data:image\/[a-z]+;base64,/, '')
CleanBase64(image) ==
    IF Len(image) >= 3 /\ image[1] = "data:image/"
       /\ Len(image[2]) >= 1 /\ Range(image[2]) \subseteq Range(LowerCase)
       /\ image[3] = ";base64,"
    THEN SubSeq(image, 4, Len(image))
    ELSE image

\* The request body analyzeWithGemini posts for one sample.
GeminiRequest(metric, mode) ==
    LET imageBase64 == IF metric.Image = <<>> THEN <<>> ELSE metric.Image[1]
        prompt == buildVisionPrompt(NumOr(metric.Pulse, 0), NumOr(metric.Breath, 0), mode)
    IN  [ prompt |-> prompt,
          inline_data |-> IF Len(imageBase64) > 0 THEN CleanBase64(imageBase64) ELSE <<>> ]

Failure(message) ==
    [ success |-> FALSE, analysis |-> <<>>, expression |-> <<>>, error |-> message ]

\* What analyzeWithGemini returns once its fetch has settled with outcome o.
GeminiResult(o) ==
    IF o.fetch = "rejected" THEN Failure(FetchFailed)
    ELSE IF ~o.readable THEN Failure(BodyUnreadable)
    ELSE IF ~o.ok
         THEN Failure(<< "Gemini API error: ", ToString(o.status), " ", o.statusText >>)
    ELSE IF o.shape = "not-json" THEN Failure(JsonSyntaxError)
    ELSE IF o.shape # "json-text" \/ o.text = <<>>
         THEN Failure(<< "Invalid response from Gemini API" >>)
    ELSE GeminiSuccess(o.text)

\* A plausible slip: the loop index is stamped instead of the sample's time.
AnalysisEntry_IndexStamp(metric, res, idx) ==
    [ kind       |-> IF res.success THEN "analysis" ELSE "error",
      error      |-> res.error,
      analysis   |-> res.analysis,
      expression |-> res.expression,
      timestamp  |-> idx,
      metrics    |-> [ heartRate  |-> NumOr(metric.Pulse, 0),
                       breathRate |-> NumOr(metric.Breath, 0) ] ]

\* The object pushed onto analyses for sample idx.
AnalysisEntry(metric, res, idx) ==
    [ kind       |-> IF res.success THEN "analysis" ELSE "error",
      error      |-> res.error,
      analysis   |-> res.analysis,
      expression |-> res.expression,
      timestamp  |-> NumOr(metric.Time, 0),
      metrics    |-> [ heartRate  |-> NumOr(metric.Pulse, 0),
                       breathRate |-> NumOr(metric.Breath, 0) ] ]

\* A plausible slip: a failed item is tried again instead of moving on.
LoopStep_Retry(idx, failed) == IF failed THEN idx ELSE idx + 1

\* i++ of the two batch loops: the next index, whatever the item's outcome.
LoopStep(idx, failed) == idx + 1

\* if (!Array.isArray(body) || body.length === 0)
AnalyzeInvalidFormat(b) == ~IsArray(b) \/ Len(b.value) = 0

AnalyzeBegin ==
    /\ pc = "start" /\ route = "analyze"
    /\ IF body.json = "invalid"
       THEN \* request.json() throws into handleAnalyze's own catch
            /\ response' = ErrorResponse(500, JsonSyntaxError)
            /\ pc' = "done"
            /\ UNCHANGED << i, results >>
       ELSE IF AnalyzeInvalidFormat(body)
       THEN /\ response' = ErrorResponse(400, << "Invalid format: expected array of metrics" >>)
            /\ pc' = "done"
            /\ UNCHANGED << i, results >>
       ELSE /\ pc' = "analyze_loop"
            /\ i' = 1
            /\ results' = <<>>
            /\ UNCHANGED response
    /\ UNCHANGED << route, contentMode, body, calls, pending, served, modelText, parsed >>

\* One loop iteration up to the await of analyzeWithGemini's fetch.
AnalyzeIssue ==
    /\ pc = "analyze_loop" /\ i <= Len(body.value)
    /\ LET metric == body.value[i]
       IN  IF metric.json = "null"
           THEN \* metric.Pulse on null throws into handleAnalyze's catch
                /\ response' = ErrorResponse(500, NullPropertyError)
                /\ pc' = "done"
                /\ UNCHANGED << calls, pending >>
           ELSE /\ calls' = Append(calls, [ service |-> "gemini", item |-> i,
                                            request |-> GeminiRequest(metric, ContentModeOf(contentMode)) ])
                /\ pending' = pending \cup {i}
                /\ pc' = "analyze_await"
                /\ UNCHANGED response
    /\ UNCHANGED << route, contentMode, body, i, results, served, modelText, parsed >>

\* The fetch settles; analyzeWithGemini returns; the entry is pushed.
AnalyzeSettle ==
    /\ pc = "analyze_await"
    /\ \E o \in GeminiOutcomes :
         LET analysisResult == GeminiResult(o)
         IN  /\ results' = Append(results, AnalysisEntry(body.value[i], analysisResult, i))
             /\ served' = Append(served, o)
             /\ i' = LoopStep(i, ~analysisResult.success)
    /\ pending' = pending \ {i}
    /\ pc' = "analyze_loop"
    /\ UNCHANGED << route, contentMode, body, calls, response, modelText, parsed >>

AnalyzeReturn ==
    /\ pc = "analyze_loop" /\ i > Len(body.value)
    /\ response' = ResultsResponse(results, Len(body.value))
    /\ pc' = "done"
    /\ UNCHANGED << route, contentMode, body, i, results, calls, pending, served,
                    modelText, parsed >>

(***************************************************************************)
(* handleTTS, handleSingleTTS, handleBatchTTS.                             *)
(***************************************************************************)
DefaultVoice == "pNInz6obpgDQGcFmaJgB"

Base64Alphabet ==
    << "A", "B", "C", "D", "E", "F", "G", "H", "I", "J", "K", "L", "M", "N", "O", "P",
       "Q", "R", "S", "T", "U", "V", "W", "X", "Y", "Z", "a", "b", "c", "d", "e", "f",
       "g", "h", "i", "j", "k", "l", "m", "n", "o", "p", "q", "r", "s", "t", "u", "v",
       "w", "x", "y", "z", "0", "1", "2", "3", "4", "5", "6", "7", "8", "9", "+", "/" >>

Sextet(n) == Base64Alphabet[n + 1]

\* btoa over the bytes of the buffer
RECURSIVE arrayBufferToBase64(_)
arrayBufferToBase64(bytes) ==
    IF Len(bytes) = 0 THEN ""
    ELSE IF Len(bytes) = 1
         THEN Sextet(bytes[1] \div 4) \o Sextet((bytes[1] % 4) * 16) \o "=="
    ELSE IF Len(bytes) = 2
         THEN Sextet(bytes[1] \div 4)
                \o Sextet((bytes[1] % 4) * 16 + bytes[2] \div 16)
                \o Sextet((bytes[2] % 16) * 4) \o "="
    ELSE Sextet(bytes[1] \div 4)
           \o Sextet((bytes[1] % 4) * 16 + bytes[2] \div 16)
           \o Sextet((bytes[2] % 16) * 4 + bytes[3] \div 64)
           \o Sextet(bytes[3] % 64)
           \o arrayBufferToBase64(SubSeq(bytes, 4, Len(bytes)))

\* The request both speech paths post.
SpeechCall(text, voiceId, idx) ==
    [ service |-> "elevenlabs", item |-> idx,
      request |-> [ voice |-> voiceId, text |-> text, model_id |-> "eleven_turbo_v2_5" ] ]

\* A plausible slip: the upstream status text is left out of the thrown message.
UpstreamErrorMessage_NoStatus(service, o) ==
    << service \o " API error: ", " - ", ErrorBodyText >>

\* `${service} API error: ${statusText} - ${errorText}` of the two throwing paths
UpstreamErrorMessage(service, o) ==
    << service \o " API error: ", o.statusText, " - ", ErrorBodyText >>

\* A plausible slip: only an absent text is refused, an empty one is sent on.
TextMissing_AbsentOnly(item) == item.text = <<>>

\* if (!text)
TextMissing(item) == Falsy(item.text)

SpeechErrorEntry(message, item) ==
    [ kind |-> "error", error |-> message, audio |-> "",
      timestamp |-> NumOr(item.timestamp, 0) ]

\* The object pushed onto audioResults once the item's fetch settled with outcome o.
SpeechEntry(o, item) ==
    IF o.fetch = "rejected" THEN SpeechErrorEntry(FetchFailed, item)
    ELSE IF ~o.ok
         THEN IF o.readable
              THEN SpeechErrorEntry(<< "ElevenLabs API error: ", o.statusText >>, item)
              ELSE SpeechErrorEntry(BodyUnreadable, item)
    ELSE IF ~o.readable THEN SpeechErrorEntry(BodyUnreadable, item)
    ELSE [ kind |-> "audio", error |-> <<>>, audio |-> arrayBufferToBase64(o.text),
           timestamp |-> NumOr(item.timestamp, 0) ]

\* The response of the /tts route when handleSingleTTS's fetch settled with outcome o.
SingleSpeechResponse(o) ==
    IF o.fetch = "rejected" THEN ErrorResponse(500, FetchFailed)
    ELSE IF ~o.ok
         THEN IF o.readable
              THEN ErrorResponse(500, UpstreamErrorMessage("ElevenLabs", o))
              ELSE ErrorResponse(500, BodyUnreadable)
    ELSE IF ~o.readable THEN ErrorResponse(500, BodyUnreadable)
    ELSE Response(200, "audio", <<>>, [ audio |-> o.text, contentType |-> "audio/mpeg" ])

TTSBegin ==
    /\ pc = "start" /\ route = "tts"
    /\ IF body.json = "invalid"
       THEN \* request.json() throws out of handleTTS into the route's catch
            /\ response' = ErrorResponse(500, JsonSyntaxError)
            /\ pc' = "done"
            /\ UNCHANGED << i, results, calls, pending >>
       ELSE IF IsArray(body)
       THEN IF Len(body.value) = 0
            THEN /\ response' = ErrorResponse(400, << "No texts provided" >>)
                 /\ pc' = "done"
                 /\ UNCHANGED << i, results, calls, pending >>
            ELSE /\ pc' = "batch_loop"
                 /\ i' = 1
                 /\ results' = <<>>
                 /\ UNCHANGED << response, calls, pending >>
       ELSE IF body.json = "null"
       THEN \* const { text, voice } = null throws into the route's catch
            /\ response' = ErrorResponse(500, NullPropertyError)
            /\ pc' = "done"
            /\ UNCHANGED << i, results, calls, pending >>
       ELSE LET single == IF body.json = "object" THEN body.value ELSE PrimItem
            IN  IF TextMissing(single)
                THEN /\ response' = ErrorResponse(400, << "Text is required" >>)
                     /\ pc' = "done"
                     /\ UNCHANGED << i, results, calls, pending >>
                ELSE /\ calls' = Append(calls, SpeechCall(single.text[1],
                                                          StrOr(single.voice, DefaultVoice), 1))
                     /\ pending' = pending \cup {1}
                     /\ pc' = "single_await"
                     /\ UNCHANGED << i, results, response >>
    /\ UNCHANGED << route, contentMode, body, served, modelText, parsed >>

SingleTTSSettle ==
    /\ pc = "single_await"
    /\ \E o \in SpeechOutcomes :
         /\ response' = SingleSpeechResponse(o)
         /\ served' = Append(served, o)
    /\ pending' = pending \ {1}
    /\ pc' = "done"
    /\ UNCHANGED << route, contentMode, body, i, results, calls, modelText, parsed >>

\* One loop iteration up to its continue or to the await of its fetch.
BatchTTSIterate ==
    /\ pc = "batch_loop" /\ i <= Len(body.value)
    /\ LET item == body.value[i]
       IN  IF item.json = "null"
           THEN \* item.text on null throws out of handleBatchTTS into the route's catch
                /\ response' = ErrorResponse(500, NullPropertyError)
                /\ pc' = "done"
                /\ UNCHANGED << i, results, calls, pending >>
           ELSE IF TextMissing(item)
           THEN /\ results' = Append(results, SpeechErrorEntry(<< "Text is required" >>, item))
                /\ i' = LoopStep(i, TRUE)
                /\ UNCHANGED << pc, response, calls, pending >>
           ELSE /\ calls' = Append(calls, SpeechCall(item.text[1],
                                                     StrOr(item.voice, DefaultVoice), i))
                /\ pending' = pending \cup {i}
                /\ pc' = "batch_await"
                /\ UNCHANGED << i, results, response >>
    /\ UNCHANGED << route, contentMode, body, served, modelText, parsed >>

BatchTTSSettle ==
    /\ pc = "batch_await"
    /\ \E o \in SpeechOutcomes :
         LET entry == SpeechEntry(o, body.value[i])
         IN  /\ results' = Append(results, entry)
             /\ served' = Append(served, o)
             /\ i' = LoopStep(i, entry.kind = "error")
    /\ pending' = pending \ {i}
    /\ pc' = "batch_loop"
    /\ UNCHANGED << route, contentMode, body, calls, response, modelText, parsed >>

BatchTTSReturn ==
    /\ pc = "batch_loop" /\ i > Len(body.value)
    /\ response' = ResultsResponse(results, Len(body.value))
    /\ pc' = "done"
    /\ UNCHANGED << route, contentMode, body, i, results, calls, pending, served,
                    modelText, parsed >>

(***************************************************************************)
(* handleSummary.                                                          *)
(***************************************************************************)
TwoDigits(n) == IF n < 10 THEN "0" \o ToString(n) ELSE ToString(n)

\* Number.prototype.toFixed on a time kept in hundredths
toFixed2(t) == ToString(t \div 100) \o "." \o TwoDigits(t % 100)

toFixed0(t) == ToString((t + 50) \div 100)

\* toFixed(1) of sum / count
AverageFixed1(sum, count) ==
    LET tenths == (20 * sum + count) \div (2 * count)
    IN  ToString(tenths \div 10) \o "." \o ToString(tenths % 10)

\* `Time ${time}s: HR ${hr}bpm, BR ${br}/min`
EventLine(metric) ==
    LET hr   == IF NumOr(metric.Pulse, 0) = 0 THEN "N/A" ELSE ToString(metric.Pulse[1])
        br   == IF NumOr(metric.Breath, 0) = 0 THEN "N/A" ELSE ToString(metric.Breath[1])
        time == IF metric.Time = <<>> THEN "N/A" ELSE toFixed2(metric.Time[1])
    IN  << "Time ", time, "s: HR ", hr, "bpm, BR ", br, "/min" >>

\* body.map(m => m.Pulse || 0)
PulsesOf(samples) == [ k \in 1..Len(samples) |-> NumOr(samples[k].Pulse, 0) ]

RECURSIVE SumOf(_)
SumOf(ns) == IF ns = <<>> THEN 0 ELSE Head(ns) + SumOf(Tail(ns))

RECURSIVE MathMax(_)
MathMax(ns) ==
    IF Len(ns) = 1 THEN ns[1]
    ELSE LET rest == MathMax(Tail(ns)) IN IF Head(ns) > rest THEN Head(ns) ELSE rest

RECURSIVE MathMin(_)
MathMin(ns) ==
    IF Len(ns) = 1 THEN ns[1]
    ELSE LET rest == MathMin(Tail(ns)) IN IF Head(ns) < rest THEN Head(ns) ELSE rest

\* A plausible slip: the emptiness test is left out.
SummaryNoData_NotArrayOnly(b) == ~IsArray(b)

\* if (!Array.isArray(body) || body.length === 0)
SummaryNoData(b) == ~IsArray(b) \/ Len(b.value) = 0

PlaceholderResponse ==
    Response(200, "placeholder", <<>>,
             [ summary |-> "No data was collected during this session." ])

\* The exception, if any, that building the prompt raises: <<>> when it is built.
\* body.map reads metric.Pulse of every element; the statistics line reads
\* body[body.length - 1].Time.toFixed(0) without optional chaining.
SummaryPromptError(samples) ==
    IF \E k \in 1..Len(samples) : samples[k].json = "null" THEN NullPropertyError
    ELSE IF Len(samples) = 0 \/ samples[Len(samples)].Time = <<>>
         THEN UndefinedPropertyError
    ELSE <<>>

SummaryPrompt(samples) ==
    LET pulses == PulsesOf(samples)
    IN  [ eventsSummary |-> [ k \in 1..Len(samples) |-> EventLine(samples[k]) ],
          dataPoints    |-> Len(samples),
          seconds       |-> toFixed0(samples[Len(samples)].Time[1]),
          average       |-> AverageFixed1(SumOf(pulses), Len(samples)),
          range         |-> ToString(MathMin(pulses)) \o "-" \o ToString(MathMax(pulses)) ]

\* The response of the /summary route when the fetch settled with outcome o.
SummaryResponse(o, samples) ==
    LET pulses == PulsesOf(samples)
    IN  IF o.fetch = "rejected" THEN ErrorResponse(500, FetchFailed)
        ELSE IF ~o.ok
             THEN IF o.readable
                  THEN ErrorResponse(500, UpstreamErrorMessage("Gemini", o))
                  ELSE ErrorResponse(500, BodyUnreadable)
        ELSE IF ~o.readable THEN ErrorResponse(500, BodyUnreadable)
        ELSE IF o.shape = "not-json" THEN ErrorResponse(500, JsonSyntaxError)
        ELSE IF o.shape # "json-text" \/ o.text = <<>>
             THEN ErrorResponse(500, << "Invalid response from Gemini API" >>)
        ELSE Response(200, "summary", <<>>,
                      [ summary    |-> o.text,
                        eventCount |-> Len(samples),
                        duration   |-> samples[Len(samples)].Time[1],
                        statistics |-> [ avgHeartRate |-> AverageFixed1(SumOf(pulses), Len(samples)),
                                         maxHeartRate |-> MathMax(pulses),
                                         minHeartRate |-> MathMin(pulses) ] ])

\* handleSummary up to the await of its fetch.
SummaryBegin ==
    /\ pc = "start" /\ route = "summary"
    /\ IF body.json = "invalid"
       THEN \* request.json() throws out of handleSummary into the route's catch
            /\ response' = ErrorResponse(500, JsonSyntaxError)
            /\ pc' = "done"
            /\ UNCHANGED << calls, pending >>
       ELSE IF SummaryNoData(body)
       THEN /\ response' = PlaceholderResponse
            /\ pc' = "done"
            /\ UNCHANGED << calls, pending >>
       ELSE IF SummaryPromptError(body.value) # <<>>
       THEN /\ response' = ErrorResponse(500, SummaryPromptError(body.value))
            /\ pc' = "done"
            /\ UNCHANGED << calls, pending >>
       ELSE /\ calls' = Append(calls, [ service |-> "gemini", item |-> 1,
                                        request |-> SummaryPrompt(body.value) ])
            /\ pending' = pending \cup {1}
            /\ pc' = "summary_await"
            /\ UNCHANGED response
    /\ UNCHANGED << route, contentMode, body, i, results, served, modelText, parsed >>

SummarySettle ==
    /\ pc = "summary_await"
    /\ \E o \in GeminiOutcomes :
         /\ response' = SummaryResponse(o, body.value)
         /\ served' = Append(served, o)
    /\ pending' = pending \ {1}
    /\ pc' = "done"
    /\ UNCHANGED << route, contentMode, body, i, results, calls, modelText, parsed >>

(***************************************************************************)
(* The requests: one request per behaviour, of any route and body.         *)
(***************************************************************************)
Init ==
    /\ route \in { "analyze", "tts", "summary" }
    /\ contentMode \in IF route = "analyze" THEN { <<>>, <<"facts">> } ELSE { <<>> }
    /\ body \in CASE route = "analyze" -> AnalyzeBodies
                  [] route = "tts"     -> SpeechBodies
                  [] OTHER             -> SummaryBodies
    /\ pc = "start"
    /\ i = 1
    /\ results = <<>>
    /\ calls = <<>>
    /\ pending = {}
    /\ served = <<>>
    /\ response = NoResponse
    /\ modelText = <<>>
    /\ parsed = NoParse

Next ==
    \/ AnalyzeBegin
    \/ AnalyzeIssue
    \/ AnalyzeSettle
    \/ AnalyzeReturn
    \/ TTSBegin
    \/ SingleTTSSettle
    \/ BatchTTSIterate
    \/ BatchTTSSettle
    \/ BatchTTSReturn
    \/ SummaryBegin
    \/ SummarySettle

Spec == Init /\ [][Next]_vars

(***************************************************************************)
(* The success path of analyzeWithGemini on every model output text.       *)
(***************************************************************************)
InitText ==
    /\ route = "none"
    /\ contentMode = <<>>
    /\ body = NullBody
    /\ pc = "text"
    /\ i = 1
    /\ results = <<>>
    /\ calls = <<>>
    /\ pending = {}
    /\ served = <<>>
    /\ response = NoResponse
    /\ modelText \in Texts \ { <<>> }
    /\ parsed = NoParse

ParseModelText ==
    /\ pc = "text"
    /\ parsed' = GeminiSuccess(modelText)
    /\ pc' = "parsed"
    /\ UNCHANGED << route, contentMode, body, i, results, calls, pending, served,
                    response, modelText >>

NextText == ParseModelText

SpecText == InitText /\ [][NextText]_vars

(***************************************************************************)
(* Vocabulary of the properties.                                           *)
(***************************************************************************)
Items == body.value

IsBatch ==
    /\ route \in { "analyze", "tts" }
    /\ IsArray(body)
    /\ Len(Items) > 0

AllObjects == \A k \in 1..Len(Items) : Items[k].json = "object"

\* The positions in calls of the fetches issued for item k.
CallsFor(k) == { c \in 1..Len(calls) : calls[c].item = k }

\* The fetch resolved with a success status and a body that could be read.
Succeeded(o) == o.fetch = "resolved" /\ o.ok /\ o.readable

\* A network exception, a non-success status, or a body without the expected text.
UpstreamFailed(o) ==
    \/ o.fetch = "rejected"
    \/ ~o.ok
    \/ o.shape \in { "json-notext", "not-json" }

TimeOrZero(item) == IF item.Time = <<>> THEN 0 ELSE item.Time[1]

StampOrZero(item) == IF item.timestamp = <<>> THEN 0 ELSE item.timestamp[1]

\* C1: for every non-empty sequence of sample objects sent to /analyze and every
\* combination of upstream outcomes, the response carries one result per sample,
\* result k is stamped with sample k's Time (0 when the sample has none), and
\* totalProcessed is the input length.
C1_AnalyzeResultsMirrorInput ==
    (route = "analyze" /\ pc = "done" /\ IsBatch /\ AllObjects) =>
        /\ response.status = 200
        /\ response.kind = "results"
        /\ Len(response.payload.results) = Len(Items)
        /\ response.payload.totalProcessed = Len(Items)
        /\ \A k \in 1..Len(Items) :
             response.payload.results[k].timestamp = TimeOrZero(Items[k])

C1_Witness ==
    /\ route = "analyze" /\ pc = "done" /\ IsBatch /\ AllObjects
    /\ Len(Items) = 2
    /\ response.kind = "results"
    /\ response.payload.results[1].kind = "error"
    /\ response.payload.results[2].kind = "analysis"
    /\ response.payload.results[2].timestamp = 150

\* C2: in batch speech, an item whose text is missing or empty gets an error entry at
\* its own index and no upstream call, every item with a text the service answered
\* successfully gets an audio entry at its own index, and entry k carries item k's
\* timestamp.
C2_BatchSpeechMissingText ==
    (route = "tts" /\ pc = "done" /\ IsBatch /\ AllObjects) =>
        /\ response.kind = "results"
        /\ Len(response.payload.results) = Len(Items)
        /\ \A k \in 1..Len(Items) :
             LET entry == response.payload.results[k]
             IN  /\ entry.timestamp = StampOrZero(Items[k])
                 /\ (Items[k].text = <<>> \/ Items[k].text = <<"">>) =>
                        (entry.kind = "error" /\ CallsFor(k) = {})
                 /\ (\E c \in CallsFor(k) : Succeeded(served[c])) => entry.kind = "audio"

C2_Witness ==
    /\ route = "tts" /\ pc = "done" /\ IsBatch /\ AllObjects
    /\ Len(Items) = 2
    /\ Items[1].text = <<"Hello">>
    /\ Items[2].text = <<"">>
    /\ response.kind = "results"
    /\ response.payload.results[1].kind = "audio"
    /\ response.payload.results[2].kind = "error"
    /\ Len(calls) = 1

\* C3: in both batches, while the loop runs the entries are those of the items before
\* the loop index, in input order; an upstream failure on an item makes that item's
\* entry an error entry and a successful answer never does; and a batch of objects is
\* answered 200 with one entry per item, even when every item failed.
C3_FailureIsolated ==
    (IsBatch /\ pc # "start") =>
        /\ pc \in { "analyze_loop", "analyze_await", "batch_loop", "batch_await" } =>
               Len(results) = i - 1
        /\ \A k \in 1..Len(results) :
             /\ results[k].timestamp
                  = IF route = "analyze" THEN TimeOrZero(Items[k]) ELSE StampOrZero(Items[k])
             /\ \A c \in CallsFor(k) :
                  c <= Len(served) =>
                    /\ UpstreamFailed(served[c]) => results[k].kind = "error"
                    /\ (Succeeded(served[c]) /\ served[c].shape \in { "json-text", "audio" })
                          => results[k].kind # "error"
        /\ (pc = "done" /\ AllObjects) =>
               /\ response.status = 200
               /\ response.kind = "results"
               /\ response.payload.results = results
               /\ Len(results) = Len(Items)

C3_Witness ==
    /\ route = "analyze" /\ pc = "done" /\ IsBatch /\ AllObjects
    /\ Len(Items) = 2
    /\ UpstreamFailed(served[1]) /\ UpstreamFailed(served[2])
    /\ response.status = 200
    /\ response.payload.results[1].kind = "error"
    /\ response.payload.results[2].kind = "error"

\* The request body was parsed and is not what the route's input contract asks for.
ContractViolated ==
    \/ /\ route = "analyze"
       /\ body.json # "invalid"
       /\ ~(IsArray(body) /\ Len(Items) > 0 /\ AllObjects)
    \/ /\ route = "tts"
       /\ body.json = "object"
       /\ (body.value.text = <<>> \/ body.value.text = <<"">>)
    \/ /\ route = "tts"
       /\ IsArray(body)
       /\ Len(Items) = 0

\* C4: a request body that fails the input contract (analysis: anything other than a
\* non-empty sequence of objects; single speech: missing or empty text; batch speech:
\* empty sequence) is answered with status 400 and causes no upstream call.
C4_BadInputAnswered400 ==
    ContractViolated =>
        /\ calls = <<>>
        /\ pc = "done" => (response.status = 400 /\ response.kind = "error")

\* The one fetch of a single speech request or of a summary request has settled.
SingleSettled ==
    /\ pc = "done"
    /\ \/ route = "tts" /\ ~IsArray(body)
       \/ route = "summary"
    /\ Len(served) = 1

LacksText(o) == Succeeded(o) /\ o.shape = "json-notext"

MentionsStatus(o) == \E k \in 1..Len(response.error) : response.error[k] = o.statusText

\* C5 as stated: in the single-item contexts a non-success upstream response, or for
\* the summary a response lacking the expected text, is answered with status 500 and
\* an error message that contains the upstream status text.  (Stated for upstream
\* responses whose body could be read.)
C5_FailureNamesStatus ==
    (SingleSettled /\ served[1].fetch = "resolved" /\ served[1].readable
       /\ (~served[1].ok \/ (route = "summary" /\ LacksText(served[1])))) =>
        /\ response.status = 500
        /\ response.kind = "error"
        /\ MentionsStatus(served[1])

\* C5, amended: each of these failures is answered with status 500 and an error body,
\* never audio or a summary; the message contains the upstream status text when the
\* upstream answered with a non-success status and a readable body, and is the fixed
\* text "Invalid response from Gemini API", without the status text, when the summary's
\* upstream response lacks the expected text.
C5_FailureIs500 ==
    (SingleSettled /\ served[1].fetch = "resolved"
       /\ (~served[1].ok \/ (route = "summary" /\ LacksText(served[1])))) =>
        /\ response.status = 500
        /\ response.kind = "error"
        /\ (~served[1].ok /\ served[1].readable) => MentionsStatus(served[1])
        /\ (route = "summary" /\ LacksText(served[1])) =>
               /\ response.error = << "Invalid response from Gemini API" >>
               /\ ~MentionsStatus(served[1])

C5_Witness ==
    /\ SingleSettled
    /\ route = "tts"
    /\ served[1].fetch = "resolved" /\ ~served[1].ok /\ served[1].readable
    /\ response.status = 500
    /\ MentionsStatus(served[1])
    /\ served[1].statusText = "Unauthorized"

\* C6: a summary request whose body is an empty sequence or no sequence at all is
\* answered with the fixed placeholder summary, and no upstream call is issued.
C6_SummaryPlaceholder ==
    (route = "summary" /\ body.json # "invalid" /\ (~IsArray(body) \/ Len(Items) = 0)) =>
        /\ calls = <<>>
        /\ pc = "done" =>
               /\ response.status = 200
               /\ response.kind = "placeholder"
               /\ response.payload.summary = "No data was collected during this session."

C6_Witness ==
    /\ route = "summary" /\ pc = "done"
    /\ IsArray(body) /\ Len(Items) = 0
    /\ response.kind = "placeholder"
    /\ calls = <<>>

\* C9: within one batch the upstream calls are sequential and never repeated: at most
\* one is in flight, the call in flight is the last one issued and is for the item
\* right after the entries already appended, calls are issued in input order, no item
\* gets a second entry, every appended analysis entry has exactly one call, and every
\* appended speech entry has exactly one call when its item has a text and none
\* otherwise.
C9_SequentialNoRetry ==
    IsBatch =>
        /\ Len(results) <= Len(Items)
        /\ Cardinality(pending) <= 1
        /\ Len(served) + Cardinality(pending) = Len(calls)
        /\ \A k \in pending :
             /\ Len(results) = k - 1
             /\ calls[Len(calls)].item = k
        /\ \A a \in 1..Len(calls) : \A b \in 1..Len(calls) :
             a < b => calls[a].item < calls[b].item
        /\ \A k \in 1..Len(results) :
             Cardinality(CallsFor(k))
               = IF route = "tts" /\ (Items[k].text = <<>> \/ Items[k].text = <<"">>)
                 THEN 0 ELSE 1
        /\ \A c \in 1..Len(calls) : calls[c].item \in 1..Len(Items)

C9_Witness ==
    /\ route = "tts" /\ IsBatch /\ pc = "batch_await"
    /\ Len(Items) = 2
    /\ pending = {2}
    /\ Len(calls) = 2
    /\ Len(results) = 1
    /\ results[1].kind = "error"

\* C10: for every non-empty sequence of samples sent to /summary, also when a sample
\* (the last one included) lacks Pulse, Breath or Time, the handler reaches its one
\* upstream request, which renders missing values as "N/A", and on upstream success
\* answers with eventCount = input length, duration = the last sample's Time and
\* maxHeartRate/minHeartRate = max/min of the pulses with a missing pulse as 0.
C10_SummaryToleratesMissing ==
    (route = "summary" /\ pc = "done" /\ IsArray(body) /\ Len(Items) > 0 /\ AllObjects) =>
        /\ Len(calls) = 1
        /\ \A k \in 1..Len(Items) :
             LET line == calls[1].request.eventsSummary[k]
             IN  /\ Items[k].Time = <<>> => line[2] = "N/A"
                 /\ Items[k].Pulse = <<>> => line[4] = "N/A"
                 /\ Items[k].Breath = <<>> => line[6] = "N/A"
        /\ (Succeeded(served[1]) /\ served[1].shape = "json-text") =>
               /\ response.kind = "summary"
               /\ response.payload.eventCount = Len(Items)
               /\ Items[Len(Items)].Time # <<>>
               /\ response.payload.duration = Items[Len(Items)].Time[1]
               /\ \A k \in 1..Len(Items) :
                    LET p == IF Items[k].Pulse = <<>> THEN 0 ELSE Items[k].Pulse[1]
                    IN  /\ p <= response.payload.statistics.maxHeartRate
                        /\ p >= response.payload.statistics.minHeartRate
               /\ \E k \in 1..Len(Items) :
                    response.payload.statistics.maxHeartRate
                      = IF Items[k].Pulse = <<>> THEN 0 ELSE Items[k].Pulse[1]
               /\ \E k \in 1..Len(Items) :
                    response.payload.statistics.minHeartRate
                      = IF Items[k].Pulse = <<>> THEN 0 ELSE Items[k].Pulse[1]

(***************************************************************************)
(* Properties of expression extraction, over SpecText.                     *)
(***************************************************************************)
\* The text begins with the letters of word w, in either case, and then a period.
BeginsWithWord(text, w) ==
    /\ Len(text) > Len(w)
    /\ \A k \in 1..Len(w) : LowerChar(text[k]) = w[k]
    /\ text[Len(w) + 1] = "."

\* Word w occurs somewhere in the text, in either case.
Occurs(text, w) ==
    \E k \in 1..(Len(text) - Len(w) + 1) :
        \A n \in 1..Len(w) : LowerChar(text[k + n - 1]) = w[n]

Hits(text) == { k \in 1..Len(emotionKeywords) : Occurs(text, emotionKeywords[k]) }

FirstHit(text) ==
    emotionKeywords[CHOOSE k \in Hits(text) : \A n \in Hits(text) : k <= n]

====
